---- MODULE Spec2Model ----
(***************************************************************************)
(* keymap-drawer: the physical layout builder (physical_layout.py) and the *)
(* SVG rendering engine (draw.py).                                         *)
(*                                                                         *)
(* Numbers.  The program computes with floats; every quantity the model    *)
(* needs is a pixel count divided by 2, 3, 4 or 5, so a length is modelled *)
(* as an integer number of 1/Px pixels (Px = 60) and the divisions are     *)
(* exact.  Euclidean norms are compared through their squares.             *)
(*                                                                         *)
(* Text.  A Python str is a sequence of one-character strings; a character *)
(* TLA+ has no escape for is written as its Python escape ("\\x00").        *)
(***************************************************************************)
EXTENDS Integers, Sequences, FiniteSets, TLC

VARIABLES
    kwargs,   \* OrthoLayout(**kwargs): the keyword arguments of the call
    vpc,      \* the position inside pydantic's validation of them
    vals,     \* the dict handed from validator to validator
    error,    \* the exception the constructor raised, "none" if none
    obj,      \* the constructed OrthoLayout, None if there is none
    op,       \* the function or method last called on a KeymapDrawer
    args,     \* its arguments
    ret,      \* its return value
    out,      \* the output sink: the sequence of elements written to it
    bpc,      \* print_board: position inside the call
    drawer,   \* the KeymapDrawer: keymap (layout, layers, combos) and cfg
    req,      \* print_board's arguments
    frame     \* print_board's locals

layoutVars == <<kwargs, vpc, vals, error, obj>>
callVars   == <<op, args, ret>>
boardVars  == <<bpc, drawer, req, frame>>
vars       == <<kwargs, vpc, vals, error, obj, op, args, ret, out, bpc, drawer, req, frame>>

None == "None"

\* the element of a one-element set: The({f(x) : x \in {e}}) is f(e), with e
\* evaluated once
The(S) == CHOOSE x \in S : TRUE

\* units per pixel
Px == 3 * 4 * 5

\* ---------------------------------------------------------------- bounds
MaxRows   == 2
MaxCols   == 3
MaxThumbs == 4

\* ------------------------------------------------------ physical_layout.py
KEY_W == 59
KEY_H == 54
SPLIT_GAP == (KEY_W * Px) \div 2

PhysicalKey(x, y) ==
    [x_pos |-> x, y_pos |-> y, width |-> KEY_W * Px, height |-> KEY_H * Px, rotation |-> 0]

\* create_row: range(ncols) is empty for ncols <= 0
RECURSIVE create_row(_, _, _, _)
create_row(keys, x, y, ncols) ==
    IF ncols <= 0 THEN keys
    ELSE create_row(Append(keys, PhysicalKey(x + (KEY_W * Px) \div 2, y + (KEY_H * Px) \div 2)),
                    x + KEY_W * Px, y, ncols - 1)

\* where a row's right half starts: x + ncols * KEY_W + SPLIT_GAP
right_half_x_no_gap(x, ncols) == x + ncols * KEY_W * Px
right_half_x(x, ncols) == x + ncols * KEY_W * Px + SPLIT_GAP

\* the body of "for _ in range(nrows)", nrows times, from height y
RECURSIVE create_rows(_, _, _, _, _)
create_rows(keys, y, nrows, ncols, split) ==
    IF nrows <= 0 THEN keys
    ELSE LET left == create_row(keys, 0, y, ncols)
             both == IF split
                     THEN create_row(left, right_half_x(0, ncols), y, ncols)
                     ELSE left
         IN  create_rows(both, y + KEY_H * Px, nrows - 1, ncols, split)

\* the thumb rows
create_thumbs(keys, nrows, ncols, nthumbs) ==
    IF nthumbs # 0
    THEN create_row(create_row(keys, (ncols - nthumbs) * KEY_W * Px, nrows * KEY_H * Px, nthumbs),
                    right_half_x(0, ncols), nrows * KEY_H * Px, nthumbs)
    ELSE keys

\* the key list create_ortho_layout builds from a dict that has all four entries
ortho_keys(v) ==
    create_thumbs(create_rows(<<>>, 0, v.rows, v.columns, v.split),
                  v.rows, v.columns, v.thumbs)

\* vals | {"keys": keys}
WithKeys(v, keys) ==
    [k \in DOMAIN v \cup {"keys"} |-> IF k = "keys" THEN keys ELSE v[k]]

\* field validation: a field absent from the input takes its declared default
WithDefaults(v) ==
    [k \in DOMAIN v \cup {"thumbs"} |-> IF k \in DOMAIN v THEN v[k] ELSE 0]

\* the asserts of check_thumbs
thumbs_ok(v) ==
    v.thumbs # 0 => (v.thumbs <= v.columns /\ v.split)

\* the keyword arguments of OrthoLayout(...): thumbs may be omitted
OrthoArgs ==
    [rows : 0..MaxRows, columns : 0..MaxCols, thumbs : 0..MaxThumbs, split : BOOLEAN]
    \cup [rows : 0..MaxRows, columns : 0..MaxCols, split : BOOLEAN]

LayoutIdle ==
    /\ kwargs = None /\ vpc = "idle" /\ vals = None /\ error = "none" /\ obj = None
CallIdle ==
    /\ op = "idle" /\ args = None /\ ret = None
BoardIdle ==
    /\ bpc = "idle" /\ drawer = None /\ req = None /\ frame = None

\* OrthoLayout(**kwargs) is called
InitLayout ==
    /\ kwargs \in OrthoArgs
    /\ vpc = "pre_root"
    /\ vals = kwargs
    /\ error = "none"
    /\ obj = None
    /\ CallIdle /\ BoardIdle /\ out = <<>>

\* pydantic runs the pre root validators first, on the raw input
create_ortho_layout ==
    /\ vpc = "pre_root"
    /\ IF "thumbs" \in DOMAIN vals
       THEN /\ vals' = WithKeys(vals, ortho_keys(vals))
            /\ vpc' = "fields"
            /\ error' = error
       ELSE \* vals["thumbs"] raises KeyError, which pydantic does not catch
            /\ vals' = vals
            /\ vpc' = "raised"
            /\ error' = "KeyError"
    /\ UNCHANGED <<kwargs, obj, op, args, ret, out, bpc, drawer, req, frame>>

\* then validates the fields
validate_fields ==
    /\ vpc = "fields"
    /\ vals' = WithDefaults(vals)
    /\ vpc' = "post_root"
    /\ UNCHANGED <<kwargs, error, obj, op, args, ret, out, bpc, drawer, req, frame>>

\* then runs the post root validators
check_thumbs ==
    /\ vpc = "post_root"
    /\ IF thumbs_ok(vals)
       THEN /\ obj' = vals
            /\ vpc' = "done"
            /\ error' = error
       ELSE /\ obj' = obj
            /\ vpc' = "raised"
            /\ error' = "ValidationError"
    /\ UNCHANGED <<kwargs, vals, op, args, ret, out, bpc, drawer, req, frame>>

NextLayout == create_ortho_layout \/ validate_fields \/ check_thumbs

SpecLayout == InitLayout /\ [][NextLayout]_vars

\* ------------------------------------------------------------------ draw.py
\* ---------------------------------------------------------------- bounds
MaxTextLen  == 5      \* longest legend text enumerated for _split_text
MaxTokenLen == 6      \* longest legend token enumerated for _draw_legend
MaxLayers   == 2      \* most layers of a keymap

NUL == "\\x00"
\* the characters str.split() splits at: those str.isspace() holds of
Whitespace ==
    {" ", "\t", "\n", "\r", "\f", "\\x0b", "\\x1c", "\\x1d", "\\x1e", "\\x1f", "\\x85", "\\xa0",
     "\\u1680", "\\u2000", "\\u2001", "\\u2002", "\\u2003", "\\u2004", "\\u2005", "\\u2006",
     "\\u2007", "\\u2008", "\\u2009", "\\u200a", "\\u2028", "\\u2029", "\\u202f", "\\u205f",
     "\\u3000"}
IsSpace(c) == c \in Whitespace

RECURSIVE SeqsUpTo(_, _)
SeqsUpTo(S, n) ==
    IF n = 0 THEN {<<>>}
    ELSE LET shorter == SeqsUpTo(S, n - 1)
         IN  shorter \cup {Append(t, c) : t \in {u \in shorter : Len(u) = n - 1}, c \in S}

\* str.replace(old, new) for a one- or two-character old: leftmost first,
\* occurrences do not overlap
RECURSIVE replace(_, _, _)
replace(text, old, new) ==
    IF Len(text) < Len(old) THEN text
    ELSE IF SubSeq(text, 1, Len(old)) = old
         THEN new \o replace(SubSeq(text, Len(old) + 1, Len(text)), old, new)
         ELSE <<text[1]>> \o replace(Tail(text), old, new)

\* str.split(): the maximal runs of non-whitespace characters
RECURSIVE split_from(_, _, _)
split_from(text, word, words) ==
    IF text = <<>>
    THEN IF word = <<>> THEN words ELSE Append(words, word)
    ELSE IF IsSpace(text[1])
         THEN split_from(Tail(text), <<>>, IF word = <<>> THEN words ELSE Append(words, word))
         ELSE split_from(Tail(text), Append(word, text[1]), words)
split(text) == split_from(text, <<>>, <<>>)

\* the substitution that protects double spaces from split()
protect(text) == replace(text, <<" ", " ">>, <<NUL>>)

\* KeymapDrawer._split_text
_split_text(text) ==
    The({ [i \in 1..Len(words) |-> replace(words[i], <<NUL>>, <<" ">>)] :
          words \in {split(protect(text))} })

\* _to_class_str: the classes joined, the empty ones dropped
_to_class_str(classes) == SelectSeq(classes, LAMBDA c : c # "")

\* html.escape
escape_char(c) ==
    CASE c = "&"  -> <<"&", "a", "m", "p", ";">>
      [] c = "<"  -> <<"&", "l", "t", ";">>
      [] c = ">"  -> <<"&", "g", "t", ";">>
      [] c = "\"" -> <<"&", "q", "u", "o", "t", ";">>
      [] c = "'"  -> <<"&", "#", "x", "2", "7", ";">>
      [] OTHER    -> <<c>>
RECURSIVE escape(_)
escape(word) == IF word = <<>> THEN <<>> ELSE escape_char(word[1]) \o escape(Tail(word))

Point(x, y) == [x |-> x, y |-> y]
PAdd(p, q) == Point(p.x + q.x, p.y + q.y)
PSub(p, q) == Point(p.x - q.x, p.y - q.y)
\* abs(p) ** 2
Abs2(p) == p.x * p.x + p.y * p.y

\* _draw_rect
_draw_rect(cfg, p, w, h, classes) ==
    <<[el |-> "rect", rx |-> cfg.key_rx, ry |-> cfg.key_ry,
       x |-> p.x - w \div 2, y |-> p.y - h \div 2, width |-> w, height |-> h,
       class |-> _to_class_str(classes)]>>

\* _draw_text
_draw_text(p, word, classes) ==
    IF word = <<>> THEN <<>>
    ELSE <<[el |-> "text", x |-> p.x, y |-> p.y, class |-> _to_class_str(classes),
            text |-> escape(word)]>>

\* _draw_textblock; dy is in 1/Px em
_draw_textblock(cfg, p, words, classes, shift) ==
    LET dy_0 == (Len(words) - 1) * ((cfg.line_spacing * (1 + shift)) \div 2)
    IN  <<[el |-> "text_open", x |-> p.x, y |-> p.y, class |-> _to_class_str(classes)],
          [el |-> "tspan", x |-> p.x, dy |-> 0 - dy_0, text |-> escape(words[1])]>>
        \o [i \in 1..(Len(words) - 1) |->
              [el |-> "tspan", x |-> p.x, dy |-> cfg.line_spacing, text |-> escape(words[i + 1])]]
        \o <<[el |-> "text_close"]>>

\* _glyph_name_re.search(word): the leftmost "$$", then as many characters
\* other than a newline ("." without DOTALL) as leave a "$$" to close on.  The
\* starts and ends of the matches:
GlyphOpens(word)  == {i \in 1..(Len(word) - 3) : word[i] = "$" /\ word[i + 1] = "$"}
GlyphCloses(word, i) ==
    {j \in (i + 2)..(Len(word) - 1) :
        /\ word[j] = "$" /\ word[j + 1] = "$"
        /\ \A k \in (i + 2)..(j - 1) : word[k] # "\n"}
SetMin(S) == CHOOSE m \in S : \A n \in S : m <= n
SetMax(S) == CHOOSE m \in S : \A n \in S : m >= n
MatchStarts(word) == {i \in GlyphOpens(word) : GlyphCloses(word, i) # {}}
glyph_search(word) ==
    The({ IF starts = {} THEN [matched |-> FALSE, glyph |-> <<>>]
          ELSE The({ [matched |-> TRUE,
                      glyph |-> SubSeq(word, i + 2, SetMax(GlyphCloses(word, i)) - 1)] :
                     i \in {SetMin(starts)} }) :
          starts \in {MatchStarts(word)} })

\* a dict: its items in insertion order, the keys distinct
dict_keys(d) == {d[i].key : i \in 1..Len(d)}
dict_get(d, key) == d[CHOOSE i \in 1..Len(d) : d[i].key = key].value

\* _is_glyph: the glyph name, or None
_is_glyph(words) ==
    IF Len(words) = 1 THEN glyph_search(words[1]) ELSE [matched |-> FALSE, glyph |-> <<>>]

\* _draw_glyph: what it writes; it returns True iff it writes.  A glyph of the
\* table is "" or markup whose view box _view_box_dimensions_re finds or not.
glyph_size(cfg, legend_type) ==
    CASE legend_type = "tap"     -> cfg.glyph_tap_size
      [] legend_type = "hold"    -> cfg.glyph_hold_size
      [] legend_type = "shifted" -> cfg.glyph_shifted_size
glyph_d_y(cfg, legend_type) ==
    CASE legend_type = "tap"     -> glyph_size(cfg, legend_type) \div 2
      [] legend_type = "hold"    -> glyph_size(cfg, legend_type)
      [] legend_type = "shifted" -> 0
_draw_glyph(cfg, p, name, legend_type, classes) ==
    IF name \notin dict_keys(cfg.glyphs) \/ dict_get(cfg.glyphs, name).markup = "empty"
       \/ dict_get(cfg.glyphs, name).markup = "no_view_box"
    THEN <<>>
    ELSE LET vb     == dict_get(cfg.glyphs, name).view_box
             height == glyph_size(cfg, legend_type)
             width  == ((vb[3] - vb[1]) * height) \div (vb[4] - vb[2])
         IN  <<[el |-> "use", href |-> name, x |-> p.x - width \div 2,
                y |-> p.y - glyph_d_y(cfg, legend_type), height |-> height, width |-> width,
                class |-> _to_class_str(classes \o <<"glyph">>), name_class |-> name]>>

\* _draw_legend: what it writes
_draw_legend(cfg, p, words, key_type, legend_type, shift) ==
    LET classes == <<key_type, legend_type>>
    IN  IF words = <<>> THEN <<>>
        ELSE The({ IF use # <<>> THEN use
                   ELSE IF Len(words) = 1 THEN _draw_text(p, words[1], classes)
                   ELSE _draw_textblock(cfg, p, words, classes, shift) :
                   use \in { The({ IF glyph.matched /\ glyph.glyph # <<>>
                                   THEN _draw_glyph(cfg, p, glyph.glyph, legend_type, classes)
                                   ELSE <<>> :
                                   glyph \in {_is_glyph(words)} }) } })

\* PhysicalKey.pos
pos(k) == Point(k.x_pos, k.y_pos)
\* PhysicalLayout.min_width, min_height
min_width(keys)  == SetMin({keys[i].width : i \in 1..Len(keys)})
min_height(keys) == SetMin({keys[i].height : i \in 1..Len(keys)})

\* math.copysign(m, v): the magnitude of m with the sign of v; a difference of
\* equal floats is +0.0
copysign(m, v) ==
    The({ IF v < 0 THEN 0 - magnitude ELSE magnitude :
          magnitude \in {IF m < 0 THEN 0 - m ELSE m} })

\* _draw_arc_dendron
_draw_arc_dendron(cfg, p_1, p_2, x_first, shorten) ==
    LET dx    == p_2.x - p_1.x
        dy    == p_2.y - p_1.y
        arc_x == copysign(cfg.arc_radius, dx)
        arc_y == copysign(cfg.arc_radius, dy)
        clockwise == (p_2.x > p_1.x) # (p_2.y > p_1.y)
    IN  <<[el |-> "path", class |-> "combo", start |-> p_1,
           line_1 |-> IF x_first THEN <<"h", cfg.arc_scale * dx - arc_x>>
                                 ELSE <<"v", cfg.arc_scale * dy - arc_y>>,
           arc |-> [radius |-> cfg.arc_radius, x |-> arc_x, y |-> arc_y,
                    clockwise |-> IF x_first THEN ~clockwise ELSE clockwise],
           line_2 |-> IF x_first THEN <<"v", dy - arc_y - copysign(shorten, dy)>>
                                 ELSE <<"h", dx - arc_x - copysign(shorten, dx)>>]>>

\* "shorten and shorten < abs(diff)"
shortens_always(shorten, diff) == shorten # 0
shortens(shorten, diff) ==
    shorten # 0 /\ (shorten < 0 \/ shorten * shorten < Abs2(diff))

\* _draw_line_dendron: the exception it raises, or what it writes.  The
\* displacement written is (1 - shorten / abs(diff)) * diff, kept as the pair of
\* diff and shorten; shorten = 0 is the full diff.  A negative shorten on a
\* zero-length segment divides by zero.
_draw_line_dendron(p_1, p_2, shorten) ==
    LET diff == PSub(p_2, p_1)
    IN  IF shortens(shorten, diff) /\ Abs2(diff) = 0
        THEN [raised |-> "ZeroDivisionError", out |-> <<>>]
        ELSE [raised |-> "none",
              out |-> <<[el |-> "path", class |-> "combo", start |-> p_1,
                         line |-> [diff |-> diff,
                                   shorten |-> IF shortens(shorten, diff)
                                               THEN shorten ELSE 0]]>>]

\* the sort key of line 194 orders a before b
sorts_before(a, b, p_mid) ==
    LET da == Abs2(PSub(pos(a), p_mid))
        db == Abs2(PSub(pos(b), p_mid))
    IN  \/ da > db
        \/ da = db /\ a.x_pos < b.x_pos
        \/ da = db /\ a.x_pos = b.x_pos /\ a.y_pos < b.y_pos

\* sorted(): a stable insertion sort
RECURSIVE insert_sorted(_, _, _)
insert_sorted(sorted, k, p_mid) ==
    IF sorted = <<>> THEN <<k>>
    ELSE IF sorts_before(k, sorted[Len(sorted)], p_mid)
         THEN Append(insert_sorted(SubSeq(sorted, 1, Len(sorted) - 1), k, p_mid),
                     sorted[Len(sorted)])
         ELSE Append(sorted, k)
RECURSIVE sorted_keys(_, _)
sorted_keys(p_keys, p_mid) ==
    IF p_keys = <<>> THEN <<>>
    ELSE insert_sorted(sorted_keys(SubSeq(p_keys, 1, Len(p_keys) - 1), p_mid),
                       p_keys[Len(p_keys)], p_mid)

RECURSIVE sum_pos(_)
sum_pos(p_keys) ==
    IF p_keys = <<>> THEN Point(0, 0) ELSE PAdd(pos(Head(p_keys)), sum_pos(Tail(p_keys)))

\* (1 - slide) / 2 * start + (1 + slide) / 2 * end; slide is in 1/Px
interpolate_swapped(slide, start, end) ==
    Point(((Px + slide) * start.x + (Px - slide) * end.x) \div (2 * Px),
          ((Px + slide) * start.y + (Px - slide) * end.y) \div (2 * Px))
interpolate(slide, start, end) ==
    Point(((Px - slide) * start.x + (Px + slide) * end.x) \div (2 * Px),
          ((Px - slide) * start.y + (Px + slide) * end.y) \div (2 * Px))

\* p_mid of print_combo, for a combo whose slide can be applied
combo_mid(p_keys, combo) ==
    The({ IF ~combo.slide.set THEN p_mid
          ELSE The({ interpolate(combo.slide.value, pos(sk[1]), pos(sk[2])) :
                     sk \in {sorted_keys(p_keys, p_mid)} }) :
          p_mid \in { The({ Point(sum.x \div Len(p_keys), sum.y \div Len(p_keys)) :
                            sum \in {sum_pos(p_keys)} }) } })

\* the box anchor p of print_combo; combo.offset is in 1/Px
combo_anchor(cfg, keys, p_0, p_keys, combo) ==
    LET n      == Len(p_keys)
        top    == SetMin({p_keys[i].y_pos - p_keys[i].height \div 2 : i \in 1..n})
        bottom == SetMax({p_keys[i].y_pos + p_keys[i].height \div 2 : i \in 1..n})
        left   == SetMin({p_keys[i].x_pos - p_keys[i].width \div 2 : i \in 1..n})
        right  == SetMax({p_keys[i].x_pos + p_keys[i].width \div 2 : i \in 1..n})
    IN  The({ CASE combo.align = "mid"    -> PAdd(p_0, p_mid)
                [] combo.align = "top"    ->
                      PAdd(p_0, Point(p_mid.x, top - cfg.inner_pad_h \div 2
                                               - (combo.offset * min_height(keys)) \div Px))
                [] combo.align = "bottom" ->
                      PAdd(p_0, Point(p_mid.x, bottom + cfg.inner_pad_h \div 2
                                               + (combo.offset * min_height(keys)) \div Px))
                [] combo.align = "left"   ->
                      PAdd(p_0, Point(left - cfg.inner_pad_w \div 2
                                      - (combo.offset * min_width(keys)) \div Px, p_mid.y))
                [] combo.align = "right"  ->
                      PAdd(p_0, Point(right + cfg.inner_pad_w \div 2
                                      + (combo.offset * min_width(keys)) \div Px, p_mid.y)) :
              p_mid \in {combo_mid(p_keys, combo)} })

\* "combo.dendron is True or abs(p_0 + k.pos - p) >= k.width - 1"; 1 pixel is Px
line_dendron_wanted_from_width(dendron, d, width) ==
    dendron = "True" \/ Abs2(d) >= width * width
line_dendron_wanted(dendron, d, width) ==
    dendron = "True" \/ width - Px <= 0 \/ Abs2(d) >= (width - Px) * (width - Px)

\* the dendron of one participant: the exception raised, and what is written
combo_dendron(cfg, p_0, p, k, combo) ==
    LET p_k == PAdd(p_0, pos(k))
    IN  CASE combo.align \in {"top", "bottom"} ->
                [raised |-> "none",
                 out |-> _draw_arc_dendron(cfg, p, p_k, TRUE,
                    IF 2 * (IF p_k.x - p.x < 0 THEN p.x - p_k.x ELSE p_k.x - p.x) < cfg.combo_w
                    THEN k.height \div 5 ELSE k.height \div 3)]
          [] combo.align \in {"left", "right"} ->
                [raised |-> "none",
                 out |-> _draw_arc_dendron(cfg, p, p_k, FALSE,
                    IF 2 * (IF p_k.y - p.y < 0 THEN p.y - p_k.y ELSE p_k.y - p.y) < cfg.combo_h
                    THEN k.width \div 5 ELSE k.width \div 3)]
          [] combo.align = "mid" ->
                IF line_dendron_wanted(combo.dendron, PSub(p_k, p), k.width)
                THEN _draw_line_dendron(p, p_k, k.width \div 3)
                ELSE [raised |-> "none", out |-> <<>>]

\* the dendrons of the participants, until one raises
RECURSIVE combo_dendrons(_, _, _, _, _)
combo_dendrons(cfg, p_0, p, p_keys, combo) ==
    IF p_keys = <<>> THEN [raised |-> "none", out |-> <<>>]
    ELSE The({ IF first.raised # "none" THEN first
               ELSE The({ [raised |-> rest.raised, out |-> first.out \o rest.out] :
                          rest \in {combo_dendrons(cfg, p_0, p, Tail(p_keys), combo)} }) :
               first \in {combo_dendron(cfg, p_0, p, Head(p_keys), combo)} })

\* print_combo: the exception it raises, and what it writes before.  No
\* participant divides by zero at line 192; unpacking sorted_keys[0:2] of a
\* single participant raises ValueError; both before any write.
print_combo(cfg, keys, p_0, combo) ==
    LET p_keys == [i \in 1..Len(combo.key_positions) |-> keys[combo.key_positions[i] + 1]]
        legend_dy == Point(0, cfg.combo_h \div 2 - cfg.small_pad)
    IN  IF Len(p_keys) = 0
        THEN [raised |-> "ZeroDivisionError", out |-> <<>>]
        ELSE IF combo.slide.set /\ Len(p_keys) < 2
        THEN [raised |-> "ValueError", out |-> <<>>]
        ELSE The({ The({ IF dendrons.raised # "none" THEN dendrons
                         ELSE [raised |-> "none",
                               out |->
                                  dendrons.out
                                  \o _draw_rect(cfg, p, cfg.combo_w, cfg.combo_h, <<combo.type>>)
                                  \o _draw_legend(cfg, p, _split_text(combo.key.tap),
                                                  combo.type, "tap", 0)
                                  \o _draw_legend(cfg, PAdd(p, legend_dy), <<combo.key.hold>>,
                                                  combo.type, "hold", 0)
                                  \o _draw_legend(cfg, PSub(p, legend_dy), <<combo.key.shifted>>,
                                                  combo.type, "shifted", 0)] :
                         dendrons \in { IF combo.dendron # "False"
                                        THEN combo_dendrons(cfg, p_0, p, p_keys, combo)
                                        ELSE [raised |-> "none", out |-> <<>>] } }) :
                   p \in {combo_anchor(cfg, keys, p_0, p_keys, combo)} })

\* the DrawConfig the drawer is given: lengths in 1/Px pixel, line_spacing in
\* 1/Px em
Svg(view_box) == [markup |-> "svg", view_box |-> view_box]
\* markup that carries its own width and height
SvgSized(view_box, width, height) ==
    [markup |-> "svg", view_box |-> view_box, width |-> width, height |-> height]
Item(key, value) == [key |-> key, value |-> value]
GlyphTables ==
    { <<>>,
      <<Item(<<"i">>, Svg(<<0, 0, 48, 24>>))>>,
      <<Item(<<"i">>, [markup |-> "no_view_box"])>>,
      <<Item(<<"i">>, [markup |-> "empty"])>>,
      <<Item(<<"x">>, SvgSized(<<0, 0, 24, 24>>, 24, 24)), Item(<<"i">>, Svg(<<0, 0, 48, 24>>))>> }
\* the glyph table of the drawers that print combos and boards
BoardGlyphs == <<Item(<<"x">>, SvgSized(<<0, 0, 24, 24>>, 24, 24)),
                 Item(<<"i">>, Svg(<<0, 0, 48, 24>>))>>
Config(glyphs) ==
    [key_rx |-> 6 * Px, key_ry |-> 6 * Px, inner_pad_w |-> 2 * Px, inner_pad_h |-> 2 * Px,
     outer_pad_w |-> 30 * Px, outer_pad_h |-> 56 * Px, small_pad |-> 2 * Px,
     combo_w |-> 28 * Px, combo_h |-> 26 * Px, line_spacing |-> (6 * Px) \div 5,
     arc_radius |-> 6 * Px, arc_scale |-> 1, append_colon_to_layer_header |-> TRUE,
     glyph_tap_size |-> 14 * Px, glyph_hold_size |-> 12 * Px, glyph_shifted_size |-> 10 * Px,
     glyphs |-> glyphs]

LegendTypes == {"tap", "hold", "shifted"}
FooBarBaz == <<"f", "o", "o", " ", " ", "b", "a", "r", " ", "b", "a", "z">>
IconExtra == <<"$", "$", "i", "$", "$", " ", "x">>
\* a newline between an opening "$$" and the next one, and inside a name
IconAfterNewline == <<"$", "$", "\n", "$", "$", "i", "$", "$">>
NewlineInName == <<"$", "$", "i", "\n", "$", "$">>
Texts == SeqsUpTo({"a", " ", "\r", NUL}, MaxTextLen) \cup {FooBarBaz}
LegendTexts ==
    SeqsUpTo({"$", "i", "x"}, MaxTokenLen) \cup {IconExtra, IconAfterNewline, NewlineInName}
\* print_key and print_combo draw the tap legend split and the others whole
LegendWords == {_split_text(t) : t \in LegendTexts} \cup {<<t>> : t \in LegendTexts}

\* a drawer on which nothing was called yet; each behaviour is one call
InitCalls ==
    /\ LayoutIdle /\ CallIdle /\ BoardIdle /\ out = <<>>

SplitTextCall ==
    \E text \in Texts :
        /\ op = "idle"
        /\ op' = "_split_text"
        /\ args' = [text |-> text]
        /\ ret' = _split_text(text)
        /\ out' = <<>>
        /\ UNCHANGED <<kwargs, vpc, vals, error, obj, bpc, drawer, req, frame>>

DrawLegendCall ==
    \E words \in LegendWords, glyphs \in GlyphTables, legend_type \in LegendTypes :
        /\ op = "idle"
        /\ op' = "_draw_legend"
        /\ args' = [cfg |-> Config(glyphs), p |-> Point(30 * Px, 27 * Px), words |-> words,
                    key_type |-> "", legend_type |-> legend_type, shift |-> 0]
        /\ ret' = None
        /\ out' = _draw_legend(Config(glyphs), Point(30 * Px, 27 * Px), words, "", legend_type, 0)
        /\ UNCHANGED <<kwargs, vpc, vals, error, obj, bpc, drawer, req, frame>>

NextText == SplitTextCall \/ DrawLegendCall

SpecText == InitCalls /\ [][NextText]_vars

\* RawLayout.parse_keys: PhysicalKey(**val), the omitted fields defaulted
parse_keys(val) ==
    [f \in {"x_pos", "y_pos", "width", "height", "rotation"} |->
        IF f \in DOMAIN val THEN val[f]
        ELSE CASE f = "width" -> KEY_W * Px [] f = "height" -> KEY_H * Px [] f = "rotation" -> 0]
RawLayout(raw) == [i \in 1..Len(raw) |-> parse_keys(raw[i])]

\* a raw layout of one key of negative width
NegativeKeys == RawLayout(<<[x_pos |-> 0, y_pos |-> 0, width |-> 0 - 3 * Px, height |-> 6 * Px]>>)

\* a raw layout of four keys, three of them 6 pixels wide
SmallKeys ==
    RawLayout(<<[x_pos |-> 0, y_pos |-> 0, width |-> 6 * Px, height |-> 6 * Px],
                [x_pos |-> 10 * Px, y_pos |-> 0, width |-> 6 * Px, height |-> 6 * Px],
                [x_pos |-> 0, y_pos |-> 8 * Px, width |-> 6 * Px, height |-> 8 * Px],
                [x_pos |-> 10 * Px, y_pos |-> 8 * Px]>>)

LayoutKey(tap, hold, shifted, type) ==
    [tap |-> tap, hold |-> hold, shifted |-> shifted, type |-> type]
Unset == [set |-> FALSE, value |-> 0]
Slide(value) == [set |-> TRUE, value |-> value]
ComboSpec(key_positions, key, align, offset, slide, dendron) ==
    [key_positions |-> key_positions, key |-> key, align |-> align, offset |-> offset,
     slide |-> slide, dendron |-> dendron, type |-> "combo", layers |-> {}]
OnLayers(combo, names) == [combo EXCEPT !.layers = names]
Aligns == {"mid", "top", "bottom", "left", "right"}
Dendrons == {None, "True", "False"}
Slides == {Unset} \cup {Slide(v) : v \in {0 - Px, 0 - Px \div 2, 0, Px \div 2, Px}}
Combos ==
    {ComboSpec(kp, LayoutKey(<<"a", " ", "b">>, <<>>, <<"$", "$", "i", "$", "$">>, ""), al, off, sl, de) :
        kp \in {<<0, 1>>, <<1, 0>>, <<0, 2>>, <<1, 2>>, <<0, 1, 2>>, <<0>>, <<2, 3>>, <<>>},
        al \in Aligns, off \in {0, Px \div 2}, sl \in Slides, de \in Dendrons}
Origins == {Point(0, 0), Point(30 * Px, 56 * Px)}
Grid == {Point(x * Px, y * Px) : x \in {0, 3, 10}, y \in {0, 4}}
Shortens == {0 - Px, 0, 2 * Px, 4 * Px, 5 * Px, 6 * Px, (59 * Px) \div 3}
\* the layouts print_combo is called on, and the combos on each
ComboCalls ==
    {<<SmallKeys, combo>> : combo \in Combos}
    \cup {<<NegativeKeys, combo>> : combo \in {c \in Combos : c.key_positions = <<0>>}}

DrawLineDendronCall ==
    \E p_1 \in Grid, p_2 \in Grid, shorten \in Shortens :
        /\ op = "idle"
        /\ op' = "_draw_line_dendron"
        /\ args' = [p_1 |-> p_1, p_2 |-> p_2, shorten |-> shorten]
        /\ \E res \in {_draw_line_dendron(p_1, p_2, shorten)} :
              ret' = res.raised /\ out' = res.out
        /\ UNCHANGED <<kwargs, vpc, vals, error, obj, bpc, drawer, req, frame>>

PrintComboCall ==
    \E p_0 \in Origins, call \in ComboCalls :
        \E cfg \in {Config(BoardGlyphs)} :
        \E res \in {print_combo(cfg, call[1], p_0, call[2])} :
            /\ op = "idle"
            /\ op' = "print_combo"
            /\ args' = [cfg |-> cfg, keys |-> call[1], p_0 |-> p_0, combo |-> call[2]]
            /\ ret' = res.raised
            /\ out' = res.out
            /\ UNCHANGED <<kwargs, vpc, vals, error, obj, bpc, drawer, req, frame>>

NextCombo == DrawLineDendronCall \/ PrintComboCall

SpecCombo == InitCalls /\ [][NextCombo]_vars

\* ---------------------------------------------- print_key, print_layer, print_board
Range(f) == {f[i] : i \in DOMAIN f}
Min2(a, b) == IF a <= b THEN a ELSE b

\* print_key: what it writes
print_key(cfg, p_0, p_key, l_key) ==
    LET p == PAdd(p_0, pos(p_key))
        w == p_key.width
        h == p_key.height
        r == p_key.rotation
        legend_dy == Point(0, h \div 2 - cfg.inner_pad_h - cfg.small_pad)
    IN  (IF r # 0 THEN <<[el |-> "g", transform |-> [rotate |-> r, x |-> p.x, y |-> p.y]]>>
                  ELSE <<>>)
        \o _draw_rect(cfg, p, w - 2 * cfg.inner_pad_w, h - 2 * cfg.inner_pad_h,
                      <<l_key.type, "key">>)
        \o The({ _draw_legend(cfg, p, tap_words, l_key.type, "tap",
                              \* two lines: down for shifted alone, up for hold alone
                              IF Len(tap_words) = 2
                              THEN IF l_key.shifted # <<>> /\ l_key.hold = <<>> THEN 0 - 1
                                   ELSE IF l_key.hold # <<>> /\ l_key.shifted = <<>> THEN 1
                                   ELSE 0
                              ELSE 0) :
                 tap_words \in {_split_text(l_key.tap)} })
        \o _draw_legend(cfg, PAdd(p, legend_dy), <<l_key.hold>>, l_key.type, "hold", 0)
        \o _draw_legend(cfg, PSub(p, legend_dy), <<l_key.shifted>>, l_key.type, "shifted", 0)
        \o (IF r # 0 THEN <<[el |-> "/g"]>> ELSE <<>>)

\* the number of pairs of zip(self.layout.keys, layer_keys)
zip_len_short(keys, layer_keys) == Min2(Len(keys), Len(layer_keys)) - 1
zip_len(keys, layer_keys) == Min2(Len(keys), Len(layer_keys))

\* the combos of print_layer, until one raises
RECURSIVE print_combos(_, _, _, _)
print_combos(cfg, keys, p_0, combos) ==
    IF combos = <<>> THEN [raised |-> "none", out |-> <<>>]
    ELSE The({ IF first.raised # "none" THEN first
               ELSE The({ [raised |-> rest.raised, out |-> first.out \o rest.out] :
                          rest \in {print_combos(cfg, keys, p_0, Tail(combos))} }) :
               first \in {print_combo(cfg, keys, p_0, Head(combos))} })

\* the first n passes of the loop over zip(self.layout.keys, layer_keys)
RECURSIVE print_keys(_, _, _, _, _, _)
print_keys(cfg, keys, p_0, layer_keys, empty_layer, n) ==
    IF n <= 0 THEN <<>>
    ELSE print_keys(cfg, keys, p_0, layer_keys, empty_layer, n - 1)
         \o print_key(cfg, p_0, keys[n],
                      IF ~empty_layer THEN layer_keys[n] ELSE LayoutKey(<<>>, <<>>, <<>>, ""))

\* print_layer: the exception it raises, and what it writes
print_layer(cfg, keys, p_0, layer_keys, combos, empty_layer) ==
    The({ [raised |-> res.raised,
           out |-> print_keys(cfg, keys, p_0, layer_keys, empty_layer, zip_len(keys, layer_keys))
                   \o res.out] :
          res \in {print_combos(cfg, keys, p_0, combos)} })

\* PhysicalLayout.width, height
layout_width(keys)  == SetMax({keys[i].x_pos + keys[i].width \div 2 : i \in 1..Len(keys)})
layout_height(keys) == SetMax({keys[i].y_pos + keys[i].height \div 2 : i \in 1..Len(keys)})

\* KeymapData's validation: a layout is given, every layer has one legend per
\* key of it, every combo names keys of it, and slide needs two participants
keymap_valid(layout, layers, combos) ==
    /\ \A i \in 1..Len(layers) : Len(layers[i].keys) = Len(layout.keys)
    /\ \A i \in 1..Len(combos) :
          /\ \A j \in 1..Len(combos[i].key_positions) :
                combos[i].key_positions[j] \in 0..(Len(layout.keys) - 1)
          /\ combos[i].slide.set => Len(combos[i].key_positions) >= 2

\* KeymapData.get_combos_per_layer: the combos active on each of the layers
get_combos_per_layer(combos, layers) ==
    [i \in 1..Len(layers) |-> SelectSeq(combos, LAMBDA c : layers[i].name \in c.layers)]

LayerNames(layers) == {layers[i].name : i \in 1..Len(layers)}

\* "all(l in layers for l in draw_layers)"
in_keymap_any(layers, draw_layers) == \E l \in Range(draw_layers) : l \in LayerNames(layers)
in_keymap(layers, draw_layers) == \A l \in Range(draw_layers) : l \in LayerNames(layers)

\* the layers print_board draws: the selected ones, in the keymap's order
selected_layers(layers, draw_layers) ==
    IF draw_layers # <<>>
    THEN SelectSeq(layers, LAMBDA layer : layer.name \in Range(draw_layers))
    ELSE layers

\* offsets_per_layer: (top, bottom) for each layer's combos
combo_offsets(keys, combos, align) ==
    The({ IF offsets = {} THEN 0 ELSE SetMax(offsets) :
          offsets \in { {(combos[i].offset * min_height(keys)) \div Px :
                            i \in {j \in 1..Len(combos) : combos[j].align = align}} } })
offsets_per_layer(keys, combos_per_layer) ==
    [i \in 1..Len(combos_per_layer) |->
        <<combo_offsets(keys, combos_per_layer[i], "top"),
          combo_offsets(keys, combos_per_layer[i], "bottom")>>]

RECURSIVE SumOffsets(_)
SumOffsets(offsets) ==
    IF offsets = <<>> THEN 0 ELSE Head(offsets)[1] + Head(offsets)[2] + SumOffsets(Tail(offsets))

\* _scrub_dims_re.sub("", block): the width and height attributes removed
_scrub_dims(block) == [f \in DOMAIN block \ {"width", "height"} |-> block[f]]

\* the glyph definitions: one <svg id=...> per glyph, in the table's order
RECURSIVE glyph_defs(_)
glyph_defs(glyphs) ==
    IF glyphs = <<>> THEN <<>>
    ELSE <<[el |-> "svg", id |-> Head(glyphs).key],
           [el |-> "glyph", block |-> _scrub_dims(Head(glyphs).value)],
           [el |-> "/svg"]>> \o glyph_defs(Tail(glyphs))

\* lines 295-313: the envelope, the definitions and the style
board_head(cfg, keys, layers, offsets) ==
    LET board_w == layout_width(keys) + 2 * cfg.outer_pad_w
        board_h == Len(layers) * layout_height(keys) + (Len(layers) + 1) * cfg.outer_pad_h
                   + SumOffsets(offsets)
    IN  <<[el |-> "svg", width |-> board_w, height |-> board_h,
           viewBox |-> <<0, 0, board_w, board_h>>, class |-> <<"keymap">>],
          [el |-> "defs"]>>
        \o glyph_defs(cfg.glyphs)
        \o <<[el |-> "/defs"], [el |-> "style"]>>

\* the keymaps and the print_board calls
LayerName(i) == <<"L", <<"0", "1", "2", "3", "4">>[i]>>
Absent == <<"X">>
BoardLayouts ==
    { [ltype |-> "none", keys |-> <<>>],
      [ltype |-> "ortho",
       keys |-> ortho_keys([rows |-> 1, columns |-> 2, thumbs |-> 0, split |-> FALSE])],
      [ltype |-> "ortho",
       keys |-> ortho_keys([rows |-> 1, columns |-> 1, thumbs |-> 1, split |-> TRUE])],
      [ltype |-> "raw",
       keys |-> RawLayout(<<[x_pos |-> 30 * Px, y_pos |-> 27 * Px],
                            [x_pos |-> 90 * Px, y_pos |-> 27 * Px, height |-> 60 * Px],
                            [x_pos |-> 60 * Px, y_pos |-> 90 * Px, width |-> 90 * Px,
                             rotation |-> 15]>>)] }
Legends ==
    <<LayoutKey(<<"a">>, <<>>, <<>>, ""),
      LayoutKey(<<"a", " ", "b">>, <<"x">>, <<>>, ""),
      LayoutKey(<<"$", "$", "i", "$", "$">>, <<>>, <<"b">>, "held")>>
\* a layer of n legends
Layer(i, n) == [name |-> LayerName(i), keys |-> [k \in 1..n |-> Legends[((k + i) % 3) + 1]]]
\* the orders of one or more of the first MaxLayers layer names
LayerOrders ==
    {o \in SeqsUpTo(1..MaxLayers, MaxLayers) :
        o # <<>> /\ \A i \in 1..Len(o) : \A j \in 1..Len(o) : i # j => o[i] # o[j]}
\* the layers of a keymap for a layout of n keys; short: the last layer lacks a legend
Layers(order, n, short) ==
    [i \in 1..Len(order) |->
        Layer(order[i], IF short /\ i = Len(order) /\ n > 0 THEN n - 1 ELSE n)]
ComboTop == OnLayers(ComboSpec(<<0, 1>>, Legends[1], "top", Px \div 2, Unset, None),
                     {LayerName(1)})
ComboMid == OnLayers(ComboSpec(<<1, 0>>, Legends[3], "mid", 0, Slide(Px), "True"),
                     {LayerName(1), LayerName(2)})
ComboOff == OnLayers(ComboSpec(<<0, 9>>, Legends[1], "mid", 0, Unset, None), {LayerName(1)})
ComboLow == OnLayers(ComboSpec(<<0, 1>>, Legends[1], "top", 0 - Px \div 2, Unset, None),
                     {LayerName(1)})
ComboLists == {<<>>, <<ComboTop>>, <<ComboTop, ComboMid>>, <<ComboOff>>, <<ComboLow>>}
\* draw_layers; None and the empty sequence are both falsy
DrawLayers ==
    {<<>>, <<LayerName(1)>>, <<LayerName(2)>>, <<LayerName(2), LayerName(1)>>,
     <<LayerName(1), Absent>>, <<Absent>>}

\* KeymapDrawer(config, out, layout=..., layers=..., combos=...) is about to be
\* called, and print_board(draw_layers, keys_only, combos_only) after it
InitBoard ==
    /\ LayoutIdle /\ CallIdle
    /\ bpc = "new"
    /\ \E layout \in BoardLayouts, order \in LayerOrders, short \in BOOLEAN,
          combos \in ComboLists, draw_layers \in DrawLayers,
          keys_only \in BOOLEAN, combos_only \in BOOLEAN :
          req = [layout |-> layout, layers |-> Layers(order, Len(layout.keys), short),
                 combos |-> combos, draw_layers |-> draw_layers,
                 keys_only |-> keys_only, combos_only |-> combos_only]
    /\ drawer = None
    /\ frame = None
    /\ out = <<>>

\* KeymapDrawer.__init__
Construct ==
    /\ bpc = "new"
    /\ IF ~keymap_valid(req.layout, req.layers, req.combos)
       THEN /\ bpc' = "raised" /\ error' = "ValidationError" /\ drawer' = drawer
       ELSE IF req.layout.ltype = "none"
       THEN /\ bpc' = "raised" /\ error' = "AssertionError" /\ drawer' = drawer
       ELSE /\ bpc' = "ready" /\ error' = error
            /\ drawer' = [cfg |-> Config(BoardGlyphs),
                          layout |-> req.layout, layers |-> req.layers, combos |-> req.combos]
    /\ UNCHANGED <<kwargs, vpc, vals, obj, op, args, ret, out, req, frame>>

\* print_board, lines 278-313
PrintBoardBegin ==
    /\ bpc = "ready"
    /\ IF req.draw_layers # <<>> /\ ~in_keymap(drawer.layers, req.draw_layers)
       THEN /\ bpc' = "raised" /\ error' = "AssertionError"
            /\ UNCHANGED <<out, frame>>
       ELSE LET layers  == selected_layers(drawer.layers, req.draw_layers)
                cpl     == IF ~req.keys_only
                           THEN get_combos_per_layer(drawer.combos, layers)
                           ELSE [i \in 1..Len(layers) |-> <<>>]
                offsets == offsets_per_layer(drawer.layout.keys, cpl)
            IN  /\ out' = out \o board_head(drawer.cfg, drawer.layout.keys, layers, offsets)
                /\ frame' = [layers |-> layers, combos_per_layer |-> cpl,
                             offsets_per_layer |-> offsets,
                             p |-> Point(drawer.cfg.outer_pad_w, 0), i |-> 1]
                /\ bpc' = "layers" /\ error' = error
    /\ UNCHANGED <<kwargs, vpc, vals, obj, op, args, ret, drawer, req>>

\* one pass of the loop of lines 316-331
PrintBoardLayer ==
    /\ bpc = "layers"
    /\ frame.i <= Len(frame.layers)
    /\ \E cfg \in {drawer.cfg}, layer \in {frame.layers[frame.i]},
          p_0 \in {PAdd(frame.p, Point(0, drawer.cfg.outer_pad_h
                                          + frame.offsets_per_layer[frame.i][1]))} :
       \E res \in {print_layer(cfg, drawer.layout.keys, p_0, layer.keys,
                               frame.combos_per_layer[frame.i], req.combos_only)},
          opened \in {<<[el |-> "g", class |-> <<"layer", layer.name>>]>>
                      \o _draw_text(PAdd(frame.p, Point(0, cfg.outer_pad_h \div 2)),
                                    IF cfg.append_colon_to_layer_header
                                    THEN Append(layer.name, ":") ELSE layer.name,
                                    <<"label">>)} :
          IF res.raised # "none"
          THEN /\ out' = out \o opened \o res.out
               /\ bpc' = "raised" /\ error' = res.raised
               /\ frame' = frame
          ELSE /\ out' = out \o opened \o res.out \o <<[el |-> "/g"]>>
               /\ frame' = [frame EXCEPT
                     !.p = PAdd(p_0, Point(0, layout_height(drawer.layout.keys)
                                              + frame.offsets_per_layer[frame.i][2])),
                     !.i = frame.i + 1]
               /\ bpc' = bpc /\ error' = error
    /\ UNCHANGED <<kwargs, vpc, vals, obj, op, args, ret, drawer, req>>

\* line 333
PrintBoardEnd ==
    /\ bpc = "layers"
    /\ frame.i > Len(frame.layers)
    /\ out' = Append(out, [el |-> "/svg"])
    /\ bpc' = "done"
    /\ UNCHANGED <<kwargs, vpc, vals, error, obj, op, args, ret, drawer, req, frame>>

NextBoard == Construct \/ PrintBoardBegin \/ PrintBoardLayer \/ PrintBoardEnd

SpecBoard == InitBoard /\ [][NextBoard]_vars

\* ------------------------------------------------- the layout builder's claims

InvalidThumbs(v) == v.thumbs > v.columns \/ (v.thumbs > 0 /\ ~v.split)

\* C1: a grid layout with thumbs > columns, or with thumbs > 0 and split =
\* false, fails with a configuration error that is decided before any key
\* geometry is generated, and yields no layout; every other combination of
\* rows, columns, thumbs and split succeeds.
C1_FailsBeforeGeometry ==
    "thumbs" \in DOMAIN kwargs =>
        /\ InvalidThumbs(kwargs) =>
                /\ "keys" \notin DOMAIN vals
                /\ vpc # "done" /\ obj = None
                /\ vpc = "raised" => error = "ValidationError"
        /\ ~InvalidThumbs(kwargs) => vpc # "raised"

Halves(v) == IF v.split THEN 2 ELSE 1
MainCount(v) == v.rows * v.columns * Halves(v)

\* the position the claim gives the i-th main key (i from 0): row-major, the
\* left half of a row before its right half
MainKeyX(v, i) ==
    LET rem == i % (v.columns * Halves(v))
    IN  (rem \div v.columns) * (v.columns * KEY_W * Px + SPLIT_GAP)
        + (rem % v.columns) * KEY_W * Px + (KEY_W * Px) \div 2
MainKeyY(v, i) ==
    (i \div (v.columns * Halves(v))) * KEY_H * Px + (KEY_H * Px) \div 2

\* C2: a valid grid layout has rows * columns * (2 if split else 1) + 2 * thumbs
\* keys, row-major with the left half before the right half in each row and
\* the main rows before the thumb rows; in a split layout the first key of a
\* row's right half has the y of the first key of its left half and an x
\* larger by exactly columns * KEY_W + SPLIT_GAP.
C2_KeyCountAndOrder ==
    vpc = "done" =>
        LET v  == kwargs
            ks == obj.keys
            m  == MainCount(v)
        IN  /\ Len(ks) = v.rows * v.columns * (IF v.split THEN 2 ELSE 1) + 2 * v.thumbs
            /\ \A i \in 0..(m - 1) :
                   /\ ks[i + 1].x_pos = MainKeyX(v, i)
                   /\ ks[i + 1].y_pos = MainKeyY(v, i)
            /\ \A i \in (m + 1)..Len(ks) :
                   /\ ks[i].y_pos = v.rows * KEY_H * Px + (KEY_H * Px) \div 2
                   /\ \A j \in 1..m : ks[j].y_pos < ks[i].y_pos
            /\ \A i \in 1..v.thumbs : \A j \in 1..v.thumbs :
                   ks[m + i].x_pos < ks[m + v.thumbs + j].x_pos
            /\ (v.split /\ v.columns >= 1) =>
                   \A r \in 0..(v.rows - 1) :
                       LET l == ks[r * 2 * v.columns + 1]
                           h == ks[r * 2 * v.columns + v.columns + 1]
                       IN  /\ h.y_pos = l.y_pos
                           /\ h.x_pos - l.x_pos = v.columns * KEY_W * Px + SPLIT_GAP

\* split, rows = 2, columns = 3, thumbs = 0 was built and has 12 keys
C2_Witness ==
    /\ vpc = "done"
    /\ kwargs = [rows |-> 2, columns |-> 3, thumbs |-> 0, split |-> TRUE]
    /\ Len(obj.keys) = 12
    /\ obj.keys[4].x_pos - obj.keys[1].x_pos = 3 * KEY_W * Px + SPLIT_GAP

\* C9: thumbs defaults to 0: a grid layout constructed with thumbs omitted is
\* constructed, with the key list of the same layout with thumbs = 0.
C9_ThumbsDefault ==
    ("thumbs" \notin DOMAIN kwargs /\ vpc \in {"done", "raised"}) =>
        /\ vpc = "done"
        /\ obj.keys = ortho_keys([k \in DOMAIN kwargs \cup {"thumbs"} |->
                                     IF k = "thumbs" THEN 0 ELSE kwargs[k]])

\* ------------------------------------------------------- the legend claims

\* no run of three or more spaces
RunsAtMostTwo(text) ==
    \A i \in 1..(Len(text) - 2) : ~(text[i] = " " /\ text[i + 1] = " " /\ text[i + 2] = " ")

\* the pieces between single spaces, a double space kept as one space, no
\* empty piece: one pass over a text whose runs of spaces have length 1 or 2
RECURSIVE Pieces(_, _, _)
Pieces(text, piece, pieces) ==
    IF text = <<>>
    THEN IF piece = <<>> THEN pieces ELSE Append(pieces, piece)
    ELSE IF Len(text) >= 2 /\ text[1] = " " /\ text[2] = " "
         THEN Pieces(SubSeq(text, 3, Len(text)), Append(piece, " "), pieces)
    ELSE IF text[1] = " "
         THEN Pieces(Tail(text), <<>>, IF piece = <<>> THEN pieces ELSE Append(pieces, piece))
    ELSE Pieces(Tail(text), Append(piece, text[1]), pieces)

\* C4: _split_text breaks a text at its single spaces and keeps a double space
\* as one space inside a token: for a text of non-space characters and runs
\* of one or two spaces the result is the pieces between the single spaces,
\* none empty; "foo  bar baz" gives ["foo bar", "baz"].
C4_SplitText ==
    op = "_split_text" =>
        /\ RunsAtMostTwo(args.text) =>
              /\ ret = Pieces(args.text, <<>>, <<>>)
              /\ \A i \in 1..Len(ret) : ret[i] # <<>>
        /\ args.text = FooBarBaz =>
              ret = << <<"f", "o", "o", " ", "b", "a", "r">>, <<"b", "a", "z">> >>

\* the token is exactly a name wrapped in the delimiter pair
Wrapped(name) == <<"$", "$">> \o name \o <<"$", "$">>
Resolvable(cfg, name) ==
    name \in dict_keys(cfg.glyphs) /\ dict_get(cfg.glyphs, name).markup = "svg"
WroteGlyph == \E k \in 1..Len(out) : out[k].el = "use"

\* C3: a legend is drawn as a glyph reference only if it is one token, that
\* token is exactly a glyph name wrapped in "$$", and the glyph table has that
\* name with a parsable view box; "$$icon$$" + "extra" and "$$icon$$extra" do
\* not resolve, and an unresolved one-token legend is drawn as the text of
\* the raw token.
C3_GlyphOnlyIfExactToken ==
    op = "_draw_legend" =>
        /\ WroteGlyph =>
              /\ Len(args.words) = 1
              /\ \E name \in dict_keys(args.cfg.glyphs) :
                    /\ args.words[1] = Wrapped(name)
                    /\ Resolvable(args.cfg, name)
        /\ (~WroteGlyph /\ Len(args.words) = 1 /\ args.words[1] # <<>>) =>
              /\ Len(out) = 1
              /\ out[1].el = "text"
              /\ out[1].text = escape(args.words[1])

\* -------------------------------------------------------- the combo claims

\* the participants of the combo print_combo was called with
Participants == [i \in 1..Len(args.combo.key_positions) |->
                    args.keys[args.combo.key_positions[i] + 1]]
\* the centre of the combo box written, relative to the layer origin p_0
BoxRect == out[CHOOSE k \in 1..Len(out) : out[k].el = "rect"]
BoxCentre ==
    Point(BoxRect.x + BoxRect.width \div 2 - args.p_0.x,
          BoxRect.y + BoxRect.height \div 2 - args.p_0.y)
SumX == sum_pos(Participants).x
SumY == sum_pos(Participants).y
\* the square of n times the distance of participant i from the centroid
FromCentroid2(i) ==
    LET n == Len(Participants)
        k == Participants[i]
    IN  (n * k.x_pos - SumX) * (n * k.x_pos - SumX) + (n * k.y_pos - SumY) * (n * k.y_pos - SumY)
\* participant i comes strictly before participant j: descending distance
\* from the centroid, then ascending x, then ascending y
Before(i, j) ==
    LET a == Participants[i]
        b == Participants[j]
    IN  \/ FromCentroid2(i) > FromCentroid2(j)
        \/ FromCentroid2(i) = FromCentroid2(j) /\ a.x_pos < b.x_pos
        \/ FromCentroid2(i) = FromCentroid2(j) /\ a.x_pos = b.x_pos /\ a.y_pos < b.y_pos
\* c is the claimed centre
IsCentre(c) ==
    LET n == Len(Participants)
        s == args.combo.slide
    IN  IF ~s.set
        THEN n * c.x = SumX /\ n * c.y = SumY
        ELSE \E i \in 1..n : \E j \in (1..n) \ {i} :
                /\ \A k \in (1..n) \ {i} : ~Before(k, i)
                /\ \A k \in (1..n) \ {i, j} : ~Before(k, j)
                /\ LET A == pos(Participants[i])
                       B == pos(Participants[j])
                   IN  /\ 2 * Px * c.x = (Px - s.value) * A.x + (Px + s.value) * B.x
                       /\ 2 * Px * c.y = (Px - s.value) * A.y + (Px + s.value) * B.y
                       /\ s.value = 0 - Px => c = A
                       /\ s.value = Px => c = B
                       /\ s.value = 0 => (2 * c.x = A.x + B.x /\ 2 * c.y = A.y + B.y)

\* C5: without slide the combo centre is the centroid of the participants;
\* with slide s and at least two participants it is ((1 - s)/2) A + ((1 + s)/2) B
\* for the first two participants A, B by descending distance from the
\* centroid, then ascending x, then ascending y; for alignment "mid" the box
\* anchor is the layer origin plus this centre (for the other alignments the
\* centre gives the anchor's coordinate along the aligned edge).
C5_ComboCentre ==
    (op = "print_combo" /\ ret = "none") =>
        /\ args.combo.slide.set => Len(Participants) >= 2
        /\ args.combo.align = "mid" => IsCentre(BoxCentre)
        /\ args.combo.align \in {"top", "bottom"} =>
              \E c \in {Point(BoxCentre.x, y) : y \in {combo_mid(Participants, args.combo).y}} :
                  IsCentre(c)
        /\ args.combo.align \in {"left", "right"} =>
              \E c \in {Point(x, BoxCentre.y) : x \in {combo_mid(Participants, args.combo).x}} :
                  IsCentre(c)

\* keys at (0,0) and (10,0), alignment "mid", slide = 1: the box is centred on (10,0)
C5_Witness ==
    /\ op = "print_combo" /\ ret = "none"
    /\ args.keys = SmallKeys
    /\ args.combo.key_positions = <<0, 1>>
    /\ args.combo.align = "mid"
    /\ args.combo.slide = Slide(Px)
    /\ BoxCentre = Point(10 * Px, 0)

\* C6: _draw_line_dendron shortens the line only when shorten is strictly
\* smaller than the segment: for shorten >= |p_2 - p_1| (a zero-length segment
\* included) the displacement written is the full p_2 - p_1, and for
\* 0 < shorten < |p_2 - p_1| it is (1 - shorten/|p_2 - p_1|) (p_2 - p_1), a
\* positive multiple of p_2 - p_1.
C6_LineShortening ==
    (op = "_draw_line_dendron" /\ args.shorten >= 0) =>
        LET d    == PSub(args.p_2, args.p_1)
            line == out[1].line
        IN  /\ ret = "none"
            /\ Len(out) = 1 /\ out[1].start = args.p_1 /\ line.diff = d
            /\ args.shorten * args.shorten >= Abs2(d) => line.shorten = 0
            /\ (0 < args.shorten /\ args.shorten * args.shorten < Abs2(d)) =>
                  line.shorten = args.shorten
            /\ line.shorten = 0 \/ (0 < line.shorten /\ line.shorten * line.shorten < Abs2(d))

\* a line of length 5 asked to be shortened by 5 was written in full
C6_Witness ==
    /\ op = "_draw_line_dendron"
    /\ PSub(args.p_2, args.p_1) = Point(3 * Px, 4 * Px)
    /\ args.shorten = 5 * Px
    /\ out[1].line = [diff |-> Point(3 * Px, 4 * Px), shorten |-> 0]

\* the ends of the connectors written, in order
RECURSIVE ConnectorEnds(_)
ConnectorEnds(written) ==
    IF written = <<>> THEN <<>>
    ELSE IF Head(written).el = "path"
         THEN IF "line" \in DOMAIN Head(written)
              THEN <<PAdd(Head(written).start, Head(written).line.diff)>>
                   \o ConnectorEnds(Tail(written))
              ELSE <<Point(0, 0)>> \o ConnectorEnds(Tail(written))
         ELSE ConnectorEnds(Tail(written))
\* the centres of the keys ks on the layer, in order
CentresOf(ks) == [i \in 1..Len(ks) |-> PAdd(args.p_0, pos(ks[i]))]
BoxAnchor == PAdd(args.p_0, BoxCentre)
Dist2(k) == Abs2(PSub(PAdd(args.p_0, pos(k)), BoxAnchor))
NoPaths == \A k \in 1..Len(out) : out[k].el # "path"

\* C10 as claimed: for alignment "mid" a straight connector goes to a
\* participant iff the dendron mode is not "never" and it is "always" or the
\* distance from the box anchor to the key's centre is at least the key's width.
C10_ConnectorIffAtLeastWidth ==
    (op = "print_combo" /\ ret = "none") =>
        /\ args.combo.dendron = "False" => NoPaths
        /\ args.combo.align = "mid" =>
              ConnectorEnds(out) =
                 CentresOf(SelectSeq(Participants,
                           LAMBDA k : /\ args.combo.dendron # "False"
                                      /\ \/ args.combo.dendron = "True"
                                         \/ Dist2(k) >= k.width * k.width))

\* C10 as amended: ... or the distance is at least the key's width minus 1.
C10_ConnectorIffAtLeastWidthMinusOne ==
    (op = "print_combo" /\ ret = "none") =>
        /\ args.combo.dendron = "False" => NoPaths
        /\ args.combo.align = "mid" =>
              ConnectorEnds(out) =
                 CentresOf(SelectSeq(Participants,
                           LAMBDA k : /\ args.combo.dendron # "False"
                                      /\ \/ args.combo.dendron = "True"
                                         \/ k.width - Px <= 0
                                         \/ Dist2(k) >= (k.width - Px) * (k.width - Px)))

\* dendron mode auto, alignment "mid": one key far enough gets a connector,
\* another, too near, gets none
C10_Witness ==
    /\ op = "print_combo" /\ ret = "none"
    /\ args.combo.align = "mid"
    /\ args.combo.dendron = None
    /\ Len(Participants) = 3
    /\ Len(ConnectorEnds(out)) = 2

\* -------------------------------------------------------- the board claims

\* some selected layer name is not a layer of the keymap
SelectsAbsent == \E l \in Range(req.draw_layers) : l \notin LayerNames(req.layers)

\* C7: print_board called with a draw_layers selection naming a layer absent
\* from the keymap fails before anything is written: nothing is ever in the
\* sink and the call never gets to its layers; whenever something was written,
\* every selected name is a layer of the keymap.
C7_NoWriteOnAbsentLayer ==
    /\ SelectsAbsent => (out = <<>> /\ bpc \in {"new", "ready", "raised"})
    /\ out # <<>> => \A l \in Range(req.draw_layers) : l \in LayerNames(req.layers)

\* a valid keymap, a selection of one present and one absent layer: the
\* assertion failed and the sink is empty
C7_Witness ==
    /\ bpc = "raised" /\ error = "AssertionError"
    /\ req.layout.ltype # "none"
    /\ req.draw_layers = <<LayerName(1), Absent>>
    /\ LayerName(1) \in LayerNames(req.layers)
    /\ out = <<>>

\* the key rectangles written, in order
KeyRects == SelectSeq(out, LAMBDA e : e.el = "rect" /\ "key" \in Range(e.class))
\* the layer groups opened
LayersOpened ==
    Len(SelectSeq(out, LAMBDA e : e.el = "g" /\ "class" \in DOMAIN e))
\* the y of the layer origin the rectangle was drawn from, were it the one of key
OriginY(rect, key) == rect.y + rect.height \div 2 - key.y_pos

\* C8: for every layer print_board emits, in every mode, print_layer renders as
\* many key slots (key rectangles classed "key") as the physical layout has
\* keys, the i-th of them with the i-th physical key's geometry: its width and
\* height less the inner padding, centred on the key's position from the
\* layer's origin.
C8_KeySlotsPerLayer ==
    bpc \in {"layers", "done"} =>
        LET keys == drawer.layout.keys
            n    == Len(keys)
            cfg  == drawer.cfg
        IN  /\ LayersOpened = frame.i - 1
            /\ bpc = "done" => LayersOpened = Len(frame.layers)
            /\ Len(KeyRects) = LayersOpened * n
            /\ \A l \in 1..LayersOpened : \A i \in 1..n :
                  LET rect == KeyRects[(l - 1) * n + i]
                  IN  /\ "key" \in Range(rect.class)
                      /\ rect.width = keys[i].width - 2 * cfg.inner_pad_w
                      /\ rect.height = keys[i].height - 2 * cfg.inner_pad_h
                      /\ rect.x + rect.width \div 2 = cfg.outer_pad_w + keys[i].x_pos
                      /\ OriginY(rect, keys[i]) = OriginY(KeyRects[(l - 1) * n + 1], keys[1])

\* two layers of a three-key layout were drawn with combos_only: six key slots
C8_Witness ==
    /\ bpc = "done"
    /\ req.combos_only
    /\ Len(drawer.layout.keys) = 3
    /\ Len(frame.layers) = 2
    /\ Len(KeyRects) = 6

====
